---- MODULE Spec2Model ----
(***************************************************************************)
(* Model of src/streamlit_app.py: the Cashier class (catalog, cart,        *)
(* discount engine, receipt ledger) and the Streamlit menu branches that   *)
(* drive it.  Money is modelled in whole currency units.                   *)
(***************************************************************************)
EXTENDS Integers, Sequences, FiniteSets, TLC

VARIABLES
    products,         \* the products table: id -> [name, price, stock]
    cart,             \* st.session_state.cart: the lines in insertion order
    receipts,         \* the receipts table: the rows in insertion order
    now,              \* the wall clock, in ticks of 1/TicksPerSecond second
    message,          \* what the last script run displayed (st.success, st.error)
    packages,         \* the Cashier attribute self.packages
    fixed_discounts,  \* the Cashier attribute self.fixed_discounts
    out               \* the discount engine's working data and last result

vars == <<products, cart, receipts, now, message, packages, fixed_discounts, out>>

-----------------------------------------------------------------------------
(* Bounds of the model *)

MaxStock == 2         \* stock levels are 0..MaxStock, typed quantities 1..MaxStock
MaxReceipts == 2      \* rows in the receipts table
MaxClock == 2         \* the clock stops after MaxClock ticks
MaxRules == 2         \* rules in a package table handed to the discount engine
MaxUnits == 2         \* units of one product in a cart handed to the engine

(* Program constants *)

TicksPerSecond == 2   \* strftime('%Y%m%d%H%M%S') keeps whole seconds
CouponAmount == 5     \* coupon_savings = 5

-----------------------------------------------------------------------------
(* Input sets *)

ProductIds == {1, 2}
\* "strap" stands for the product name 布帶, "bag" for 布袋
Names == {"strap", "bag"}
Prices == {0, 30}
\* What can be typed in a product form: name, price, stock
ProductForms ==
    (Names \X Prices \X (0..MaxStock))
    \cup {<<"", 30, 1>>, <<"strap", -1, 1>>, <<"strap", 30, -1>>}
Quantities == 1..MaxStock
PaymentMethods == {"Cash", "PayMe"}
PaymentAmounts == {0, 50, 100}

Shown(kind, n) == <<[kind |-> kind, n |-> n]>>
Idle == [op |-> "idle"]
NoAttribute == [defined |-> FALSE, rules |-> <<>>]

-----------------------------------------------------------------------------
(* Helpers *)

Min(a, b) == IF a <= b THEN a ELSE b

MaxOf(S) == CHOOSE x \in S : \A y \in S : y <= x

RECURSIVE SumSeq(_)
SumSeq(s) == IF s = <<>> THEN 0 ELSE Head(s) + SumSeq(Tail(s))

InCart(c, pid) == \E i \in 1..Len(c) : c[i].pid = pid

LineOf(c, pid) == c[CHOOSE i \in 1..Len(c) : c[i].pid = pid]

-----------------------------------------------------------------------------
(* Cashier.add_to_cart *)

\* add_to_cart with the line topped up to the stock level when the request
\* exceeds it
add_to_cart_clamps(c, product_id, quantity) ==
    IF product_id \in DOMAIN products /\ InCart(c, product_id)
       /\ quantity <= products[product_id].stock
       /\ LineOf(c, product_id).quantity + quantity > products[product_id].stock
    THEN [cart |-> [i \in 1..Len(c) |->
                      IF c[i].pid = product_id
                      THEN [c[i] EXCEPT !.quantity = products[product_id].stock]
                      ELSE c[i]],
          message |-> Shown("cannot_add_more",
                            products[product_id].stock - LineOf(c, product_id).quantity)]
    ELSE IF product_id \in DOMAIN products
    THEN IF quantity > products[product_id].stock
         THEN [cart |-> c, message |-> Shown("cannot_add", products[product_id].stock)]
         ELSE IF InCart(c, product_id)
         THEN [cart |-> [i \in 1..Len(c) |->
                           IF c[i].pid = product_id
                           THEN [c[i] EXCEPT !.quantity = @ + quantity]
                           ELSE c[i]],
               message |-> Shown("added", quantity)]
         ELSE [cart |-> Append(c, [pid |-> product_id,
                                   name |-> products[product_id].name,
                                   price |-> products[product_id].price,
                                   quantity |-> quantity]),
               message |-> Shown("added", quantity)]
    ELSE [cart |-> c, message |-> Shown("invalid_product", 0)]

\* add_to_cart without the check of lines 163-164
add_to_cart_unchecked(c, product_id, quantity) ==
    IF product_id \in DOMAIN products
    THEN IF quantity > products[product_id].stock
         THEN [cart |-> c, message |-> Shown("cannot_add", products[product_id].stock)]
         ELSE IF InCart(c, product_id)
         THEN [cart |-> [i \in 1..Len(c) |->
                           IF c[i].pid = product_id
                           THEN [c[i] EXCEPT !.quantity = @ + quantity]
                           ELSE c[i]],
               message |-> Shown("added", quantity)]
         ELSE [cart |-> Append(c, [pid |-> product_id,
                                   name |-> products[product_id].name,
                                   price |-> products[product_id].price,
                                   quantity |-> quantity]),
               message |-> Shown("added", quantity)]
    ELSE [cart |-> c, message |-> Shown("invalid_product", 0)]

\* add_to_cart with available_stock reported at line 164
add_to_cart_reports_stock(c, product_id, quantity) ==
    IF product_id \in DOMAIN products
    THEN IF quantity > products[product_id].stock
         THEN [cart |-> c, message |-> Shown("cannot_add", products[product_id].stock)]
         ELSE IF InCart(c, product_id)
         THEN IF LineOf(c, product_id).quantity + quantity > products[product_id].stock
              THEN [cart |-> c,
                    message |-> Shown("cannot_add_more", products[product_id].stock)]
              ELSE [cart |-> [i \in 1..Len(c) |->
                                IF c[i].pid = product_id
                                THEN [c[i] EXCEPT !.quantity = @ + quantity]
                                ELSE c[i]],
                    message |-> Shown("added", quantity)]
         ELSE [cart |-> Append(c, [pid |-> product_id,
                                   name |-> products[product_id].name,
                                   price |-> products[product_id].price,
                                   quantity |-> quantity]),
               message |-> Shown("added", quantity)]
    ELSE [cart |-> c, message |-> Shown("invalid_product", 0)]

\* add_to_cart that rewrites name and price when it increments a line
add_to_cart_recaptures(c, product_id, quantity) ==
    IF product_id \in DOMAIN products
    THEN IF quantity > products[product_id].stock
         THEN [cart |-> c, message |-> Shown("cannot_add", products[product_id].stock)]
         ELSE IF InCart(c, product_id)
         THEN IF LineOf(c, product_id).quantity + quantity > products[product_id].stock
              THEN [cart |-> c,
                    message |-> Shown("cannot_add_more",
                                     products[product_id].stock
                                     - LineOf(c, product_id).quantity)]
              ELSE [cart |-> [i \in 1..Len(c) |->
                                IF c[i].pid = product_id
                                THEN [c[i] EXCEPT !.quantity = @ + quantity,
                                                  !.name = products[product_id].name,
                                                  !.price = products[product_id].price]
                                ELSE c[i]],
                    message |-> Shown("added", quantity)]
         ELSE [cart |-> Append(c, [pid |-> product_id,
                                   name |-> products[product_id].name,
                                   price |-> products[product_id].price,
                                   quantity |-> quantity]),
               message |-> Shown("added", quantity)]
    ELSE [cart |-> c, message |-> Shown("invalid_product", 0)]

\* Cashier.add_to_cart: the cart after the call and the message returned
add_to_cart(c, product_id, quantity) ==
    IF product_id \in DOMAIN products
    THEN LET product == products[product_id]
             available_stock == product.stock
         IN  IF quantity > available_stock
             THEN [cart |-> c,
                   message |-> Shown("cannot_add", available_stock)]
             ELSE IF InCart(c, product_id)
             THEN IF LineOf(c, product_id).quantity + quantity > available_stock
                  THEN [cart |-> c,
                        message |-> Shown("cannot_add_more",
                                         available_stock - LineOf(c, product_id).quantity)]
                  ELSE [cart |-> [i \in 1..Len(c) |->
                                    IF c[i].pid = product_id
                                    THEN [c[i] EXCEPT !.quantity = @ + quantity]
                                    ELSE c[i]],
                        message |-> Shown("added", quantity)]
             ELSE [cart |-> Append(c, [pid |-> product_id,
                                       name |-> product.name,
                                       price |-> product.price,
                                       quantity |-> quantity]),
                   message |-> Shown("added", quantity)]
    ELSE [cart |-> c, message |-> Shown("invalid_product", 0)]

(* Cashier.view_cart *)

RECURSIVE view_cart_loop(_, _, _)
view_cart_loop(c, total, cart_items) ==
    IF c = <<>>
    THEN [cart_items |-> cart_items, total |-> total]
    ELSE LET details == Head(c)
             subtotal == details.price * details.quantity
         IN  view_cart_loop(Tail(c), total + subtotal,
                            Append(cart_items, [name |-> details.name,
                                                quantity |-> details.quantity,
                                                price |-> details.price,
                                                subtotal |-> subtotal]))

\* view_cart pricing each line at the catalog's current price
view_cart_current_price(c) ==
    [cart_items |-> <<>>,
     total |-> SumSeq([i \in 1..Len(c) |->
                  (IF c[i].pid \in DOMAIN products
                   THEN products[c[i].pid].price ELSE c[i].price) * c[i].quantity])]

view_cart(c) ==
    IF c = <<>>
    THEN [cart_items |-> <<>>, total |-> 0]
    ELSE view_cart_loop(c, 0, <<>>)

-----------------------------------------------------------------------------
(* The discount engine.  A package rule is [name, required_products,       *)
(* discount]; required_products is the recipe's (product id, quantity)     *)
(* items in dict order.  A threshold rule is [threshold, discount].  A     *)
(* log line is [label, name, times, amount].                               *)

Line(label, name, times, amount) ==
    [label |-> label, name |-> name, times |-> times, amount |-> amount]

CartPids(c) == {c[i].pid : i \in 1..Len(c)}

\* available_quantities = {pid: details["quantity"] for pid, details in cart.items()}
available_of(c) == [pid \in CartPids(c) |-> LineOf(c, pid).quantity]

\* The loop of lines 219-223; times_applicable is float("inf") before the
\* first item, written [inf |-> TRUE, n |-> 0].
RECURSIVE times_loop(_, _, _)
RECURSIVE times_loop_exact(_, _, _)

\* != in the place of < in the test of line 220
times_loop_exact(required_products, available_quantities, times_applicable) ==
    IF required_products = <<>>
    THEN times_applicable
    ELSE LET pid == Head(required_products).pid
             qty_required == Head(required_products).qty
         IN  IF pid \notin DOMAIN available_quantities
                \/ available_quantities[pid] # qty_required
             THEN [inf |-> FALSE, n |-> 0]
             ELSE times_loop_exact(Tail(required_products), available_quantities,
                    [inf |-> FALSE,
                     n |-> IF times_applicable.inf
                           THEN available_quantities[pid] \div qty_required
                           ELSE Min(times_applicable.n,
                                    available_quantities[pid] \div qty_required)])

times_loop(required_products, available_quantities, times_applicable) ==
    IF required_products = <<>>
    THEN times_applicable
    ELSE LET pid == Head(required_products).pid
             qty_required == Head(required_products).qty
         IN  IF pid \notin DOMAIN available_quantities
                \/ available_quantities[pid] < qty_required
             THEN [inf |-> FALSE, n |-> 0]
             ELSE times_loop(Tail(required_products), available_quantities,
                    [inf |-> FALSE,
                     n |-> IF times_applicable.inf
                           THEN available_quantities[pid] \div qty_required
                           ELSE Min(times_applicable.n,
                                    available_quantities[pid] \div qty_required)])

\* the working pool left as it was
deduct_nothing(available_quantities, required_products, times_applicable) ==
    available_quantities

\* The loop of lines 230-231.
deduct(available_quantities, required_products, times_applicable) ==
    [pid \in DOMAIN available_quantities |->
        LET used == {i \in 1..Len(required_products) : required_products[i].pid = pid}
        IN  IF used = {}
            THEN available_quantities[pid]
            ELSE available_quantities[pid]
                 - required_products[CHOOSE i \in used : TRUE].qty * times_applicable]

\* the iteration with a rule applied once at most
package_step_once(st, package) ==
    LET times_applicable ==
            Min(1, times_loop(package.required_products, st.available_quantities,
                              [inf |-> TRUE, n |-> 0]).n)
    IN  IF times_applicable > 0
        THEN [savings |-> st.savings + package.discount * times_applicable,
              details |-> Append(st.details,
                            Line("package", package.name, times_applicable,
                                 package.discount * times_applicable)),
              available_quantities |->
                  deduct(st.available_quantities, package.required_products,
                         times_applicable)]
        ELSE st

\* One iteration of the loop over self.packages (lines 213-231) on the
\* locals st = [savings, details, available_quantities].
package_step(st, package) ==
    LET times_applicable ==
            times_loop(package.required_products, st.available_quantities,
                       [inf |-> TRUE, n |-> 0]).n
    IN  IF times_applicable > 0
        THEN [savings |-> st.savings + package.discount * times_applicable,
              details |-> Append(st.details,
                            Line("package", package.name, times_applicable,
                                 package.discount * times_applicable)),
              available_quantities |->
                  deduct(st.available_quantities, package.required_products,
                         times_applicable)]
        ELSE st

RECURSIVE package_loop(_, _)
package_loop(rules, st) ==
    IF rules = <<>> THEN st ELSE package_loop(Tail(rules), package_step(st, Head(rules)))

package_locals(c) ==
    [savings |-> 0, details |-> <<>>, available_quantities |-> available_of(c)]

\* Cashier.apply_package_discounts; reading an attribute the instance does
\* not have raises AttributeError, which the except clause turns into 0, [].
apply_package_discounts(c) ==
    IF ~packages.defined
    THEN [savings |-> 0, details |-> <<>>]
    ELSE LET st == package_loop(packages.rules, package_locals(c))
         IN  [savings |-> st.savings, details |-> st.details]

\* min in the place of max at line 246
best_of_lowest(applicable_discounts) ==
    LET low == CHOOSE x \in {applicable_discounts[i].threshold :
                               i \in 1..Len(applicable_discounts)} :
                  \A i \in 1..Len(applicable_discounts) :
                      x <= applicable_discounts[i].threshold
        first == CHOOSE i \in 1..Len(applicable_discounts) :
                    /\ applicable_discounts[i].threshold = low
                    /\ \A j \in 1..(i - 1) : applicable_discounts[j].threshold # low
    IN  applicable_discounts[first]

\* max(applicable_discounts, key=lambda x: x["threshold"]): the first item
\* of the list whose threshold is the largest.
best_of(applicable_discounts) ==
    LET top == MaxOf({applicable_discounts[i].threshold :
                        i \in 1..Len(applicable_discounts)})
        first == CHOOSE i \in 1..Len(applicable_discounts) :
                    /\ applicable_discounts[i].threshold = top
                    /\ \A j \in 1..(i - 1) : applicable_discounts[j].threshold # top
    IN  applicable_discounts[first]

NoFixedDiscount == [discount |-> 0, msg |-> Line("no_fixed", "", 0, 0)]

\* Cashier.apply_fixed_discount
apply_fixed_discount(total) ==
    IF ~fixed_discounts.defined
    THEN NoFixedDiscount
    ELSE LET Qualifies(d) == total >= d.threshold
             applicable_discounts == SelectSeq(fixed_discounts.rules, Qualifies)
         IN  IF applicable_discounts = <<>>
             THEN NoFixedDiscount
             ELSE LET best_discount == best_of(applicable_discounts)
                  IN  [discount |-> best_discount.discount,
                       msg |-> Line("fixed", "", 1, best_discount.discount)]

\* sum(details["price"] * details["quantity"] for details in cart.values())
RECURSIVE total_before(_)
total_before(c) ==
    IF c = <<>> THEN 0 ELSE Head(c).price * Head(c).quantity + total_before(Tail(c))

\* checkout with one line changed.  "fixed_on_original": the threshold rule is
\* selected against total_before_discounts; "coupon_floor": coupon_savings is
\* min(5, total_after_fixed); "no_empty_test": lines 257-258 are left out.
checkout_variant(c, apply_coupon, variant) ==
    IF c = <<>> /\ variant # "no_empty_test"
    THEN [output |-> <<Line("empty", "", 0, 0)>>, final_total |-> 0,
          discounts_used |-> <<>>]
    ELSE LET total_before_discounts == total_before(c)
             pkg == apply_package_discounts(c)
             total_after_packages == total_before_discounts - pkg.savings
             fixed == IF variant = "fixed_on_original"
                      THEN apply_fixed_discount(total_before_discounts)
                      ELSE apply_fixed_discount(total_after_packages)
             total_after_fixed == total_after_packages - fixed.discount
             coupon_savings == IF ~apply_coupon THEN 0
                               ELSE IF variant = "coupon_floor"
                               THEN Min(CouponAmount, total_after_fixed)
                               ELSE CouponAmount
             total_after_coupon == total_after_fixed - coupon_savings
         IN  [output |->
                  <<Line("before", "", 0, total_before_discounts),
                    Line("package_savings", "", 0, pkg.savings)>>
                  \o pkg.details
                  \o <<fixed.msg>>
                  \o (IF apply_coupon
                      THEN <<Line("coupon", "", 1, CouponAmount)>> ELSE <<>>)
                  \o <<Line("final", "", 0, total_after_coupon)>>,
              final_total |-> total_after_coupon,
              discounts_used |->
                  pkg.details
                  \o (IF fixed.discount > 0
                      THEN <<Line("fixed", "", 1, fixed.discount)>> ELSE <<>>)
                  \o (IF apply_coupon
                      THEN <<Line("coupon", "", 1, CouponAmount)>> ELSE <<>>)]

checkout_fixed_on_original(c, apply_coupon) ==
    checkout_variant(c, apply_coupon, "fixed_on_original")

checkout_coupon_floor(c, apply_coupon) ==
    checkout_variant(c, apply_coupon, "coupon_floor")

checkout_no_empty_test(c, apply_coupon) ==
    checkout_variant(c, apply_coupon, "no_empty_test")

\* Cashier.checkout
checkout(c, apply_coupon) ==
    IF c = <<>>
    THEN [output |-> <<Line("empty", "", 0, 0)>>, final_total |-> 0,
          discounts_used |-> <<>>]
    ELSE LET total_before_discounts == total_before(c)
             pkg == apply_package_discounts(c)
             total_after_packages == total_before_discounts - pkg.savings
             fixed == apply_fixed_discount(total_after_packages)
             total_after_fixed == total_after_packages - fixed.discount
             coupon_savings == IF apply_coupon THEN CouponAmount ELSE 0
             total_after_coupon == total_after_fixed - coupon_savings
         IN  [output |->
                  <<Line("before", "", 0, total_before_discounts),
                    Line("package_savings", "", 0, pkg.savings)>>
                  \o pkg.details
                  \o <<fixed.msg>>
                  \o (IF apply_coupon
                      THEN <<Line("coupon", "", 1, CouponAmount)>> ELSE <<>>)
                  \o <<Line("final", "", 0, total_after_coupon)>>,
              final_total |-> total_after_coupon,
              discounts_used |->
                  pkg.details
                  \o (IF fixed.discount > 0
                      THEN <<Line("fixed", "", 1, fixed.discount)>> ELSE <<>>)
                  \o (IF apply_coupon
                      THEN <<Line("coupon", "", 1, CouponAmount)>> ELSE <<>>)]

-----------------------------------------------------------------------------
(* The receipt ledger *)

\* datetime.now().strftime('%Y%m%d%H%M%S'): the clock cut to whole seconds
receipt_id_at(t) == t \div TicksPerSecond

\* "; ".join(f"{name} x {quantity}" for the cart's lines)
products_summary(c) == [i \in 1..Len(c) |-> <<c[i].name, c[i].quantity>>]

\* "; ".join(discounts_used) if discounts_used else "None"
discounts_summary(discounts_used) ==
    IF discounts_used = <<>> THEN <<Line("None", "", 0, 0)>> ELSE discounts_used

\* log_receipt_to_sqlite over a receipt_id column that is not declared unique
log_receipt_to_sqlite_not_unique(rows, c, total, payment_method, payment_amount, change, discounts_used) ==
    [rows |-> Append(rows, [receipt_id |-> receipt_id_at(now),
                            date |-> now,
                            products |-> products_summary(c),
                            total_before_discounts |-> total_before(c),
                            discounts_applied |-> discounts_summary(discounts_used),
                            final_total |-> total,
                            payment_method |-> payment_method,
                            payment_amount |-> payment_amount,
                            change |-> change]),
     message |-> Shown("receipt_logged", 0)]

\* Cashier.log_receipt_to_sqlite: the rows of the receipts table after the
\* call and the message it displays.  receipt_id is declared unique, so the commit of a second row with
\* the same receipt_id raises and the except clause rolls the insert back.
log_receipt_to_sqlite(rows, c, total, payment_method, payment_amount, change, discounts_used) ==
    LET receipt == [receipt_id |-> receipt_id_at(now),
                    date |-> now,
                    products |-> products_summary(c),
                    total_before_discounts |-> total_before(c),
                    discounts_applied |-> discounts_summary(discounts_used),
                    final_total |-> total,
                    payment_method |-> payment_method,
                    payment_amount |-> payment_amount,
                    change |-> change]
    IN  IF \E i \in 1..Len(rows) : rows[i].receipt_id = receipt.receipt_id
        THEN [rows |-> rows, message |-> Shown("failed_to_log_receipt", 0)]
        ELSE [rows |-> Append(rows, receipt),
              message |-> Shown("receipt_logged", 0)]

\* edit_receipt without the recalculation of line 356
edit_receipt_stale_change(rows, receipt_id, new_payment_method, new_payment_amount) ==
    [i \in 1..Len(rows) |->
        IF rows[i].receipt_id = receipt_id
        THEN [rows[i] EXCEPT !.payment_method = new_payment_method,
                             !.payment_amount = new_payment_amount]
        ELSE rows[i]]

\* edit_receipt that also stamps the row with the time of the edit
edit_receipt_restamps(rows, receipt_id, new_payment_method, new_payment_amount) ==
    [i \in 1..Len(rows) |->
        IF rows[i].receipt_id = receipt_id
        THEN [rows[i] EXCEPT !.payment_method = new_payment_method,
                             !.payment_amount = new_payment_amount,
                             !.change = new_payment_amount - rows[i].final_total,
                             !.date = now]
        ELSE rows[i]]

\* Cashier.edit_receipt: the rows after the call
edit_receipt(rows, receipt_id, new_payment_method, new_payment_amount) ==
    [i \in 1..Len(rows) |->
        IF rows[i].receipt_id = receipt_id
        THEN [rows[i] EXCEPT !.payment_method = new_payment_method,
                             !.payment_amount = new_payment_amount,
                             !.change = new_payment_amount - rows[i].final_total]
        ELSE rows[i]]

\* Cashier.delete_receipt: the rows after the call
delete_receipt(rows, receipt_id) ==
    LET Kept(r) == r.receipt_id # receipt_id IN SelectSeq(rows, Kept)

ReceiptIds == {receipts[i].receipt_id : i \in 1..Len(receipts)}

ReceiptOf(rows, receipt_id) ==
    rows[CHOOSE i \in 1..Len(rows) : rows[i].receipt_id = receipt_id]

-----------------------------------------------------------------------------
(* The catalog *)

\* the form check without its test of the stock
valid_product_details_any_stock(name, price, stock) == name # "" /\ price >= 0

\* the form check without its test of the price
valid_product_details_any_price(name, price, stock) == name # "" /\ stock >= 0

\* The form check of the Manage Products branch
valid_product_details(name, price, stock) == name # "" /\ price >= 0 /\ stock >= 0

\* The rowid SQLite gives a new row of a table without AUTOINCREMENT
next_product_id == IF DOMAIN products = {} THEN 1 ELSE MaxOf(DOMAIN products) + 1

\* Cashier.add_product: name is declared unique, a second row with the same
\* name makes the commit raise and the insert is rolled back.
add_product(name, price, stock) ==
    IF \E p \in DOMAIN products : products[p].name = name
    THEN products
    ELSE [p \in DOMAIN products \cup {next_product_id} |->
            IF p = next_product_id
            THEN [name |-> name, price |-> price, stock |-> stock]
            ELSE products[p]]

\* Cashier.edit_product
edit_product(product_id, name, price, stock) ==
    IF product_id \notin DOMAIN products
    THEN products
    ELSE IF \E p \in DOMAIN products \ {product_id} : products[p].name = name
    THEN products
    ELSE [products EXCEPT ![product_id] =
            [name |-> name, price |-> price, stock |-> stock]]

\* Cashier.delete_product
delete_product(product_id) ==
    [p \in DOMAIN products \ {product_id} |-> products[p]]

-----------------------------------------------------------------------------
(* The application: one action per button of the Streamlit menu *)

\* The first two rows of default_products, with the stock the model allows
default_products ==
    [p \in {1, 2} |->
        IF p = 1 THEN [name |-> "strap", price |-> 30, stock |-> MaxStock]
                 ELSE [name |-> "bag", price |-> 50, stock |-> MaxStock]]

\* Cashier.__init__ and the session state set up at lines 482-488: neither
\* self.packages nor self.fixed_discounts is ever assigned.
Init ==
    /\ products = default_products
    /\ cart = <<>>
    /\ receipts = <<>>
    /\ now = 0
    /\ message = <<>>
    /\ packages = NoAttribute
    /\ fixed_discounts = NoAttribute
    /\ out = Idle

Frozen == UNCHANGED <<packages, fixed_discounts, out>>

\* "Add to Cart" button
AddToCartOf(product_id, quantity) ==
    LET r == add_to_cart(cart, product_id, quantity)
    IN  /\ cart' = r.cart
        /\ message' = r.message
        /\ UNCHANGED <<products, receipts, now>>
        /\ Frozen

AddToCart ==
    \E product_id \in ProductIds, quantity \in Quantities :
        AddToCartOf(product_id, quantity)

\* "Clear Cart" button
ClearCart ==
    /\ cart' = <<>>
    /\ message' = Shown("cart_cleared", 0)
    /\ UNCHANGED <<products, receipts, now>>
    /\ Frozen

\* the Finalize Payment branch with the cart reset moved out of the test of
\* line 551
finalize_payment_always_clears(c, rows, apply_coupon, payment_method, payment_amount) ==
    LET co == checkout(c, apply_coupon)
        final_total == co.final_total
        change == payment_amount - final_total
        logged == log_receipt_to_sqlite(rows, c, final_total, payment_method,
                                        payment_amount, change, co.discounts_used)
    IN  IF payment_amount >= final_total
        THEN [cart |-> <<>>, rows |-> logged.rows,
              message |-> logged.message \o Shown("payment_successful", 0)]
        ELSE [cart |-> <<>>, rows |-> rows,
              message |-> Shown("insufficient_payment", 0)]

\* "Finalize Payment" button of the Checkout branch (lines 543-574): the
\* new cart, the new rows and the messages displayed.
finalize_payment(c, rows, apply_coupon, payment_method, payment_amount) ==
    LET co == checkout(c, apply_coupon)
        final_total == co.final_total
        change == payment_amount - final_total
        logged == log_receipt_to_sqlite(rows, c, final_total, payment_method,
                                        payment_amount, change, co.discounts_used)
    IN  IF payment_amount >= final_total
        THEN [cart |-> <<>>, rows |-> logged.rows,
              message |-> logged.message \o Shown("payment_successful", 0)]
        ELSE [cart |-> c, rows |-> rows,
              message |-> Shown("insufficient_payment", 0)]

\* the Finalize Payment branch with the units sold taken off the stock
FinalizePaymentOf_takes_stock(apply_coupon, payment_method, payment_amount) ==
    LET r == finalize_payment(cart, receipts, apply_coupon, payment_method,
                              payment_amount)
        paid == payment_amount >= checkout(cart, apply_coupon).final_total
    IN  /\ checkout(cart, apply_coupon).final_total > 0
        /\ Len(r.rows) <= MaxReceipts
        /\ cart' = r.cart
        /\ receipts' = r.rows
        /\ message' = r.message
        /\ products' = [pid \in DOMAIN products |->
                          IF paid /\ InCart(cart, pid)
                          THEN [products[pid] EXCEPT
                                  !.stock = @ - LineOf(cart, pid).quantity]
                          ELSE products[pid]]
        /\ UNCHANGED now
        /\ Frozen

\* the Finalize Payment branch without the test of line 547
FinalizePaymentOf_any_total(apply_coupon, payment_method, payment_amount) ==
    LET r == finalize_payment(cart, receipts, apply_coupon, payment_method,
                              payment_amount)
    IN  /\ Len(r.rows) <= MaxReceipts
        /\ cart' = r.cart
        /\ receipts' = r.rows
        /\ message' = r.message
        /\ UNCHANGED <<products, now>>
        /\ Frozen

FinalizePaymentOf(apply_coupon, payment_method, payment_amount) ==
    LET r == finalize_payment(cart, receipts, apply_coupon, payment_method,
                              payment_amount)
    IN  /\ checkout(cart, apply_coupon).final_total > 0
        /\ Len(r.rows) <= MaxReceipts
        /\ cart' = r.cart
        /\ receipts' = r.rows
        /\ message' = r.message
        /\ UNCHANGED <<products, now>>
        /\ Frozen

FinalizePayment ==
    \E apply_coupon \in BOOLEAN, payment_method \in PaymentMethods,
       payment_amount \in PaymentAmounts :
        FinalizePaymentOf(apply_coupon, payment_method, payment_amount)

\* "Add Product" form (lines 603-607)
AddProduct ==
    \E form \in ProductForms :
        /\ next_product_id \in ProductIds
        /\ products' = IF valid_product_details(form[1], form[2], form[3])
                       THEN add_product(form[1], form[2], form[3])
                       ELSE products
        /\ message' = Shown("manage_products", 0)
        /\ UNCHANGED <<cart, receipts, now>>
        /\ Frozen

\* "Update Product" form (lines 625-629)
EditProduct ==
    \E product_id \in DOMAIN products, form \in ProductForms :
        /\ products' = IF valid_product_details(form[1], form[2], form[3])
                       THEN edit_product(product_id, form[1], form[2], form[3])
                       ELSE products
        /\ message' = Shown("manage_products", 0)
        /\ UNCHANGED <<cart, receipts, now>>
        /\ Frozen

\* Delete Product that also takes the product's line out of the cart
DeleteProduct_purges_cart ==
    \E product_id \in DOMAIN products :
        /\ products' = delete_product(product_id)
        /\ message' = Shown("manage_products", 0)
        /\ cart' = LET Kept(l) == l.pid # product_id IN SelectSeq(cart, Kept)
        /\ UNCHANGED <<receipts, now>>
        /\ Frozen

\* "Delete Product" button, with the confirmation box ticked (lines 641-643)
DeleteProduct ==
    \E product_id \in DOMAIN products :
        /\ products' = delete_product(product_id)
        /\ message' = Shown("manage_products", 0)
        /\ UNCHANGED <<cart, receipts, now>>
        /\ Frozen

\* "Update Receipt" form of the View Receipts branch (lines 690-698): the
\* rows after it
update_receipt(rows, receipt_id, new_payment_method, new_payment_amount) ==
    IF new_payment_amount < ReceiptOf(rows, receipt_id).final_total
    THEN rows
    ELSE edit_receipt(rows, receipt_id, new_payment_method, new_payment_amount)

UpdateReceipt ==
    \E receipt_id \in ReceiptIds, new_payment_method \in PaymentMethods,
       new_payment_amount \in PaymentAmounts :
        /\ receipts' = update_receipt(receipts, receipt_id, new_payment_method,
                                      new_payment_amount)
        /\ message' = Shown("update_receipt", 0)
        /\ UNCHANGED <<products, cart, now>>
        /\ Frozen

\* "Delete Receipt" form, with the confirmation box ticked (lines 713-716)
DeleteReceipt ==
    \E receipt_id \in ReceiptIds :
        /\ receipts' = delete_receipt(receipts, receipt_id)
        /\ message' = Shown("delete_receipt", 0)
        /\ UNCHANGED <<products, cart, now>>
        /\ Frozen

\* Time passes
Tick ==
    /\ now < MaxClock
    /\ now' = now + 1
    /\ UNCHANGED <<products, cart, receipts, message>>
    /\ Frozen

\* The shop floor: the catalog and the cart
Next ==
    \/ AddToCart
    \/ ClearCart
    \/ AddProduct
    \/ EditProduct
    \/ DeleteProduct

Spec == Init /\ [][Next]_vars

\* The shop with its back office open during a sale: one product on the
\* shelf, the catalog edited or emptied between the adds and the payment.
InitShop ==
    /\ products = [p \in {1} |-> default_products[p]]
    /\ cart = <<>>
    /\ receipts = <<>>
    /\ now = 0
    /\ message = <<>>
    /\ packages = NoAttribute
    /\ fixed_discounts = NoAttribute
    /\ out = Idle

NextShop ==
    \/ AddToCart
    \/ EditProduct
    \/ DeleteProduct
    \/ FinalizePayment

SpecShop == InitShop /\ [][NextShop]_vars

\* The checkout desk: the cart, the payment and the receipt ledger, over a
\* catalog that stays as it is: one unit of each product, at the default
\* prices or at a price of 5 and a price of 0.
LedgerCatalogs ==
    {[p \in {1, 2} |->
        IF p = 1 THEN [name |-> "strap", price |-> prices[1], stock |-> 1]
                 ELSE [name |-> "bag", price |-> prices[2], stock |-> 1]] :
     prices \in {<<30, 50>>, <<5, 0>>}}

InitLedger ==
    /\ products \in LedgerCatalogs
    /\ cart = <<>>
    /\ receipts = <<>>
    /\ now = 0
    /\ message = <<>>
    /\ packages = NoAttribute
    /\ fixed_discounts = NoAttribute
    /\ out = Idle

NextLedger ==
    \/ AddToCart
    \/ ClearCart
    \/ FinalizePayment
    \/ UpdateReceipt
    \/ DeleteReceipt
    \/ Tick

SpecLedger == InitLedger /\ [][NextLedger]_vars

-----------------------------------------------------------------------------
(* The discount engine on its own: a cart and the two rule tables are      *)
(* given, and the passes run on them.                                      *)

Item(pid, qty) == [pid |-> pid, qty |-> qty]

\* The recipes of the named package rules; "bag_and_strap" and "two_straps"
\* stand for the rule names 一袋一布帶 and 兩布帶.
Recipe(name) ==
    CASE name = "bag_and_strap" -> <<Item(1, 1), Item(2, 1)>>
      [] name = "two_straps" -> <<Item(1, 2)>>
      [] name = "one_strap" -> <<Item(1, 1)>>
      [] name = "two_bags" -> <<Item(2, 2)>>

RuleNames == {"bag_and_strap", "two_straps", "one_strap", "two_bags"}

PackageRules ==
    {[name |-> name, required_products |-> Recipe(name), discount |-> discount] :
        name \in RuleNames, discount \in {10, 15}}

\* The ordered tables of at most MaxRules rules with different names
PackageTables ==
    {[defined |-> TRUE, rules |-> rules] :
        rules \in {t \in UNION {[1..n -> PackageRules] : n \in 0..MaxRules} :
                     \A i, j \in 1..Len(t) : i # j => t[i].name # t[j].name}}

Threshold(threshold, discount) == [threshold |-> threshold, discount |-> discount]

ThresholdTables ==
    {[defined |-> TRUE, rules |-> rules] :
        rules \in {<<>>,
                   <<Threshold(220, 20), Threshold(350, 40)>>,
                   <<Threshold(350, 40), Threshold(220, 20)>>,
                   <<Threshold(220, 20), Threshold(220, 30)>>,
                   <<Threshold(50, 5), Threshold(110, 20)>>}}

Totals == {0, 219, 220, 250, 349, 350, 360}

\* The cart with a straps and b bags, at the default prices
EngineCart(a, b) ==
    (IF a > 0 THEN <<[pid |-> 1, name |-> "strap", price |-> 30, quantity |-> a]>>
              ELSE <<>>)
    \o (IF b > 0 THEN <<[pid |-> 2, name |-> "bag", price |-> 50, quantity |-> b]>>
                 ELSE <<>>)

EngineCarts == {EngineCart(a, b) : a, b \in 0..MaxUnits}

\* The same carts with the lines captured at a price of 3 and a price of 0
CheapCart(a, b) ==
    (IF a > 0 THEN <<[pid |-> 1, name |-> "strap", price |-> 3, quantity |-> a]>>
              ELSE <<>>)
    \o (IF b > 0 THEN <<[pid |-> 2, name |-> "bag", price |-> 0, quantity |-> b]>>
                 ELSE <<>>)

CheapCarts == {CheapCart(a, b) : a, b \in 0..MaxUnits}

InitEngine ==
    /\ products = default_products
    /\ cart \in EngineCarts \cup CheapCarts
    /\ receipts = <<>>
    /\ now = 0
    /\ message = <<>>
    /\ packages \in PackageTables \cup {NoAttribute}
    /\ fixed_discounts \in ThresholdTables \cup {NoAttribute}
    /\ out = Idle

EngineFrame ==
    UNCHANGED <<products, cart, receipts, now, message, packages, fixed_discounts>>

\* apply_package_discounts is entered: its locals are set up (lines 209-211)
PackagePassStart ==
    /\ out = Idle
    /\ out' = [op |-> "package", rest |-> packages.rules, st |-> package_locals(cart)]
    /\ EngineFrame

\* the iteration with the units taken from the cart's own lines
PackagePassStep_consumes_cart ==
    /\ out.op = "package"
    /\ out.rest # <<>>
    /\ out' = [op |-> "package", rest |-> Tail(out.rest),
               st |-> package_step(out.st, Head(out.rest))]
    /\ cart' = [i \in 1..Len(cart) |->
                  [cart[i] EXCEPT
                     !.quantity = out'.st.available_quantities[cart[i].pid]]]
    /\ UNCHANGED <<products, receipts, now, message, packages, fixed_discounts>>

\* one iteration of the loop over self.packages
PackagePassStep ==
    /\ out.op = "package"
    /\ out.rest # <<>>
    /\ out' = [op |-> "package", rest |-> Tail(out.rest),
               st |-> package_step(out.st, Head(out.rest))]
    /\ EngineFrame

\* apply_fixed_discount(total)
FixedPass ==
    \E total \in Totals :
        /\ out = Idle
        /\ out' = [op |-> "fixed", total |-> total, res |-> apply_fixed_discount(total)]
        /\ EngineFrame

\* checkout(cart, apply_coupon)
CheckoutPass ==
    \E apply_coupon \in BOOLEAN :
        /\ out = Idle
        /\ out' = [op |-> "checkout", apply_coupon |-> apply_coupon,
                   res |-> checkout(cart, apply_coupon)]
        /\ EngineFrame

NextEngine ==
    \/ PackagePassStart
    \/ PackagePassStep
    \/ FixedPass
    \/ CheckoutPass

SpecEngine == InitEngine /\ [][NextEngine]_vars

-----------------------------------------------------------------------------
(* Properties of the checkout desk *)

\* C1: a Finalize Payment step whose payment amount is below the final
\* total that checkout returned adds no receipt to the ledger and leaves the
\* cart exactly as it was.
C1_InsufficientPaymentChangesNothing ==
    [][\A apply_coupon \in BOOLEAN, payment_method \in PaymentMethods,
          payment_amount \in PaymentAmounts :
          (/\ FinalizePaymentOf(apply_coupon, payment_method, payment_amount)
           /\ payment_amount < checkout(cart, apply_coupon).final_total)
          => receipts' = receipts /\ cart' = cart]_vars

\* An insufficient payment has just been refused on a cart with lines.
C1_Witness ==
    /\ message = Shown("insufficient_payment", 0)
    /\ cart # <<>>
    /\ \E payment_amount \in PaymentAmounts :
          0 < payment_amount /\ payment_amount < checkout(cart, FALSE).final_total

\* C2: a Finalize Payment step with sufficient payment is atomic: after it
\* either a new receipt is in the ledger and the cart is empty, or no
\* receipt was added and the cart is unchanged.
C2_FinalizeIsAtomic ==
    [][\A apply_coupon \in BOOLEAN, payment_method \in PaymentMethods,
          payment_amount \in PaymentAmounts :
          (/\ FinalizePaymentOf(apply_coupon, payment_method, payment_amount)
           /\ payment_amount >= checkout(cart, apply_coupon).final_total)
          => \/ Len(receipts') = Len(receipts) + 1 /\ cart' = <<>>
             \/ receipts' = receipts /\ cart' = cart]_vars

\* C6: every stored receipt has change = payment_amount - final_total and
\* change >= 0, after its creation and after any receipt edits.
C6_ChangeConsistent ==
    \A i \in 1..Len(receipts) :
        /\ receipts[i].change = receipts[i].payment_amount - receipts[i].final_total
        /\ receipts[i].change >= 0

\* A receipt created with the coupon (final total 25) has just been edited
\* and now holds a payment of 100.
C6_Witness ==
    /\ message = Shown("update_receipt", 0)
    /\ \E i \in 1..Len(receipts) :
          /\ receipts[i].final_total = 25
          /\ receipts[i].payment_amount = 100
          /\ receipts[i].change = 75

-----------------------------------------------------------------------------
(* Properties of the cart *)

\* C3: add_to_cart fails and leaves the cart unchanged when the product is
\* unknown, when the quantity exceeds the stock (new line), or when the
\* line's quantity plus the quantity exceeds the stock (existing line).
C3_FailedAddLeavesCart ==
    [][\A product_id \in ProductIds, quantity \in Quantities :
          (/\ AddToCartOf(product_id, quantity)
           /\ \/ product_id \notin DOMAIN products
              \/ /\ product_id \in DOMAIN products
                 /\ ~InCart(cart, product_id)
                 /\ quantity > products[product_id].stock
              \/ /\ product_id \in DOMAIN products
                 /\ InCart(cart, product_id)
                 /\ LineOf(cart, product_id).quantity + quantity
                       > products[product_id].stock)
          => cart' = cart /\ message'[1].kind # "added"]_vars

\* An add to an existing line has just been refused for lack of stock.
C3_Witness ==
    /\ Len(message) = 1
    /\ message[1].kind = "cannot_add_more"
    /\ cart # <<>>

\* C4: right after a successful add_to_cart the line that was added or
\* incremented holds at most the stock level the call read.
C4_AddedLineWithinStock ==
    [][\A product_id \in ProductIds, quantity \in Quantities :
          (/\ AddToCartOf(product_id, quantity)
           /\ message'[1].kind = "added")
          => /\ InCart(cart', product_id)
             /\ LineOf(cart', product_id).quantity <= products[product_id].stock]_vars

\* A line has just been incremented up to the stock level of a product
\* that a catalog edit had changed since the line was created.
C4_Witness ==
    /\ Len(message) = 1
    /\ message[1].kind = "added"
    /\ \E i \in 1..Len(cart) :
          /\ cart[i].pid \in DOMAIN products
          /\ cart[i].quantity = products[cart[i].pid].stock
          /\ cart[i].quantity > message[1].n
          /\ products[cart[i].pid].price # cart[i].price

\* C5: view_cart's total is the sum over the lines of captured price times
\* quantity, and a step that changes the price of a product (edit_product)
\* leaves that total as it was.
C5_ViewCartTotal ==
    /\ [](view_cart(cart).total
            = SumSeq([i \in 1..Len(cart) |-> cart[i].price * cart[i].quantity]))
    /\ [][(\E product_id \in DOMAIN products \cap DOMAIN products' :
              products'[product_id].price # products[product_id].price)
          => view_cart(cart').total = view_cart(cart).total]_vars

\* A product's price has just been edited away from the price its open cart
\* line captured.
C5_Witness ==
    /\ message = Shown("manage_products", 0)
    /\ \E i \in 1..Len(cart) :
          /\ cart[i].pid \in DOMAIN products
          /\ products[cart[i].pid].price # cart[i].price
          /\ view_cart(cart).total > 0

-----------------------------------------------------------------------------
(* Properties of the discount engine *)

SpecThresholds == <<Threshold(220, 20), Threshold(350, 40)>>

ScenarioCart(c) ==
    /\ Len(c) = 2
    /\ \E i, j \in 1..2 :
          /\ c[i] = [pid |-> 1, name |-> "strap", price |-> 30, quantity |-> 2]
          /\ c[j] = [pid |-> 2, name |-> "bag", price |-> 50, quantity |-> 1]

\* C7: for the cart of 2 straps at 30 and 1 bag at 50, checkout without
\* coupon reports 110 before discounts, applies the package rule
\* bag_and_strap exactly once (-10) and no other rule, applies no fixed
\* discount, and returns the final total 100.
C7_ScenarioCheckout ==
    ScenarioCart(cart) =>
        LET co == checkout(cart, FALSE)
        IN  /\ co.output[1] = Line("before", "", 0, 110)
            /\ co.discounts_used = <<Line("package", "bag_and_strap", 1, 10)>>
            /\ \E k \in 1..Len(co.output) : co.output[k].label = "no_fixed"
            /\ co.final_total = 100

\* C8: apply_fixed_discount applies the discount of exactly one rule, one
\* with the highest threshold among the rules whose threshold is <= total,
\* and no discount when no rule qualifies; with the rules 220 -> 20 and
\* 350 -> 40 a total of 250 becomes 230 and a total of 360 becomes 320.
C8_FixedThresholdPass ==
    out.op = "fixed" =>
        LET rules == fixed_discounts.rules
            qualifying == {i \in 1..Len(rules) : rules[i].threshold <= out.total}
        IN  /\ qualifying = {} =>
                  out.res.discount = 0 /\ out.res.msg.label = "no_fixed"
            /\ qualifying # {} =>
                  \E i \in qualifying :
                      /\ \A j \in qualifying : rules[j].threshold <= rules[i].threshold
                      /\ out.res.discount = rules[i].discount
                      /\ out.res.msg = Line("fixed", "", 1, rules[i].discount)
            /\ rules = SpecThresholds =>
                  /\ out.total = 250 => out.total - out.res.discount = 230
                  /\ out.total = 360 => out.total - out.res.discount = 320

\* Both rules qualify for a total of 360 and the pass has taken 40 off.
C8_Witness ==
    /\ out.op = "fixed"
    /\ fixed_discounts.rules = SpecThresholds
    /\ out.total = 360
    /\ out.res.discount = 40

\* The quantity of product pid that one application of a recipe takes
RequiredOf(required_products, pid) ==
    SumSeq([i \in 1..Len(required_products) |->
              IF required_products[i].pid = pid THEN required_products[i].qty ELSE 0])

\* The units of product pid that the rules logged in details have consumed
Consumed(details, pid) ==
    SumSeq([k \in 1..Len(details) |->
              RequiredOf(Recipe(details[k].name), pid) * details[k].times])

QuantityIn(c, pid) == IF InCart(c, pid) THEN LineOf(c, pid).quantity ELSE 0

\* C9: at every point of the package pass, for each product, the units
\* consumed by the rules applied so far (required quantity x times applied)
\* are at most the product's quantity in the cart, and no entry of the
\* working pool is negative.
C9_NoDoubleConsumption ==
    out.op = "package" =>
        /\ \A pid \in ProductIds :
              Consumed(out.st.details, pid) <= QuantityIn(cart, pid)
        /\ \A pid \in DOMAIN out.st.available_quantities :
              out.st.available_quantities[pid] >= 0

\* Two rules that both require straps have been applied and have consumed
\* every strap of the cart.
C9_Witness ==
    /\ out.op = "package"
    /\ out.rest = <<>>
    /\ Len(out.st.details) = 2
    /\ RequiredOf(Recipe(out.st.details[1].name), 1) > 0
    /\ RequiredOf(Recipe(out.st.details[2].name), 1) > 0
    /\ Consumed(out.st.details, 1) = QuantityIn(cart, 1)
    /\ out.st.available_quantities[1] = 0

\* Cart a holds at most the quantity that cart b holds of every product.
AtMost(a, b) == \A pid \in ProductIds : QuantityIn(a, pid) <= QuantityIn(b, pid)

\* C10: for the rule table in force, the savings of the package pass on the
\* cart are at least its savings on every cart with no more of any product.
C10_SavingsMonotonic ==
    (out.op = "package" /\ out.rest = <<>>) =>
        \A smaller \in EngineCarts :
            AtMost(smaller, cart) =>
                apply_package_discounts(smaller).savings <= out.st.savings

\* No product is required by two rules of the table.
DisjointRecipes(rules) ==
    \A i, j \in 1..Len(rules) :
        i # j => \A pid \in ProductIds :
                    RequiredOf(rules[i].required_products, pid) = 0
                    \/ RequiredOf(rules[j].required_products, pid) = 0

\* C10, amended: when no product is required by two rules of the table,
\* every required quantity is positive and no discount is negative, the savings of the package pass on the cart are
\* at least its savings on every cart with no more of any product.
C10_SavingsMonotonicDisjoint ==
    (/\ out.op = "package"
     /\ out.rest = <<>>
     /\ DisjointRecipes(packages.rules)
     /\ \A i \in 1..Len(packages.rules) :
           /\ packages.rules[i].discount >= 0
           /\ \A k \in 1..Len(packages.rules[i].required_products) :
                 packages.rules[i].required_products[k].qty > 0) =>
        \A smaller \in EngineCarts :
            AtMost(smaller, cart) =>
                apply_package_discounts(smaller).savings <= out.st.savings

\* Two rules on different products have both been applied, and a cart with
\* fewer units saves strictly less.
C10_Witness ==
    /\ out.op = "package"
    /\ out.rest = <<>>
    /\ DisjointRecipes(packages.rules)
    /\ Len(out.st.details) = 2
    /\ \E smaller \in EngineCarts :
          /\ AtMost(smaller, cart)
          /\ 0 < apply_package_discounts(smaller).savings
          /\ apply_package_discounts(smaller).savings < out.st.savings

-----------------------------------------------------------------------------
(* Properties of checkout *)

\* The lines of a checkout log that carry one of the labels
LinesOf(output, labels) ==
    LET Labelled(l) == l.label \in labels IN SelectSeq(output, Labelled)

AmountsOf(lines) == SumSeq([i \in 1..Len(lines) |-> lines[i].amount])

\* C11: the log of checkout on a non-empty cart lists the total before
\* discounts, the package savings, the package lines, the fixed-discount
\* line, the coupon line if requested and the final total, in this order;
\* the fixed discount is that of a rule with the highest threshold among the
\* rules whose threshold is <= (total before discounts - package savings),
\* and final total = total before discounts - package savings - fixed
\* discount - coupon savings.
C11_PassesInOrder ==
    (out.op = "checkout" /\ cart # <<>>) =>
        LET o == out.res.output
            n == Len(o)
            before == o[1].amount
            package_savings == o[2].amount
            running == before - package_savings
            fixed_lines == LinesOf(o, {"fixed", "no_fixed"})
            coupon_lines == LinesOf(o, {"coupon"})
            rules == fixed_discounts.rules
            qualifying == {i \in 1..Len(rules) : rules[i].threshold <= running}
        IN  /\ o[1].label = "before" /\ o[2].label = "package_savings"
            /\ o[n].label = "final"
            /\ Len(fixed_lines) = 1
            /\ Len(coupon_lines) = (IF out.apply_coupon THEN 1 ELSE 0)
            /\ \A k \in 3..(n - 1) :
                  /\ o[k].label \in {"package", "fixed", "no_fixed", "coupon"}
                  /\ o[k].label = "package" =>
                        \A j \in k..(n - 1) :
                            o[j].label \in {"package", "fixed", "no_fixed", "coupon"}
                  /\ o[k].label \in {"fixed", "no_fixed"} =>
                        \A j \in (k + 1)..(n - 1) : o[j].label = "coupon"
            /\ before = SumSeq([i \in 1..Len(cart) |->
                                  cart[i].price * cart[i].quantity])
            /\ package_savings = AmountsOf(LinesOf(o, {"package"}))
            /\ qualifying = {} => fixed_lines[1] = Line("no_fixed", "", 0, 0)
            /\ qualifying # {} =>
                  \E i \in qualifying :
                      /\ \A j \in qualifying : rules[j].threshold <= rules[i].threshold
                      /\ fixed_lines[1] = Line("fixed", "", 1, rules[i].discount)
            /\ out.res.final_total
                  = before - package_savings - fixed_lines[1].amount
                    - AmountsOf(coupon_lines)
            /\ o[n].amount = out.res.final_total

\* A checkout of 110 before discounts where the package savings bring the
\* running total under the threshold 110: the rule of threshold 50 is taken.
C11_Witness ==
    /\ out.op = "checkout"
    /\ out.apply_coupon
    /\ out.res.output[1].amount = 110
    /\ out.res.output[2].amount = 10
    /\ fixed_discounts.rules = <<Threshold(50, 5), Threshold(110, 20)>>
    /\ out.res.final_total = 90

\* C12: on a non-empty cart, checkout with the coupon returns a final total
\* exactly 5 below checkout without the coupon, whatever the total, and its
\* discount log ends with the coupon entry; without the coupon no coupon
\* entry is logged.
C12_CouponIsFlat ==
    (out.op = "checkout" /\ cart # <<>>) =>
        LET used == out.res.discounts_used
        IN  IF out.apply_coupon
            THEN /\ out.res.final_total = checkout(cart, FALSE).final_total - 5
                 /\ used # <<>>
                 /\ used[Len(used)] = Line("coupon", "", 1, 5)
                 /\ Len(LinesOf(out.res.output, {"coupon"})) = 1
            ELSE /\ LinesOf(used, {"coupon"}) = <<>>
                 /\ LinesOf(out.res.output, {"coupon"}) = <<>>

\* The coupon has been taken off a total below 5.
C12_Witness ==
    /\ out.op = "checkout"
    /\ out.apply_coupon
    /\ cart # <<>>
    /\ out.res.output[1].amount < 5
    /\ out.res.final_total < 0

\* C13: checkout on an empty cart returns the 'cart is empty' result, final
\* total 0 and an empty discount log, with or without the coupon and
\* whatever the rule tables hold.
C13_EmptyCartShortCircuit ==
    (out.op = "checkout" /\ cart = <<>>) =>
        /\ out.res.output = <<Line("empty", "", 0, 0)>>
        /\ out.res.final_total = 0
        /\ out.res.discounts_used = <<>>

\* checkout was called on an empty cart with the coupon requested.
C13_Witness ==
    /\ out.op = "checkout"
    /\ cart = <<>>
    /\ out.apply_coupon
    /\ out.res.final_total = 0

-----------------------------------------------------------------------------
(* Properties of the messages of add_to_cart *)

\* The add of quantity units of a product of the catalog is refused for lack
\* of stock.
FailsForStock(product_id, quantity) ==
    /\ product_id \in DOMAIN products
    /\ \/ ~InCart(cart, product_id) /\ quantity > products[product_id].stock
       \/ /\ InCart(cart, product_id)
          /\ LineOf(cart, product_id).quantity + quantity
                > products[product_id].stock

\* C14: whenever add_to_cart fails for insufficient stock, the number it
\* reports is stock - existing quantity when the product has a cart line and
\* stock when it has none, for every requested quantity.
C14_ReportsAdditionalUnits ==
    [][\A product_id \in ProductIds, quantity \in Quantities :
          (AddToCartOf(product_id, quantity) /\ FailsForStock(product_id, quantity))
          => /\ Len(message') = 1
             /\ message'[1].n
                  = IF InCart(cart, product_id)
                    THEN products[product_id].stock
                         - LineOf(cart, product_id).quantity
                    ELSE products[product_id].stock]_vars

\* C14, amended: whenever add_to_cart fails for insufficient stock, it
\* reports stock when the requested quantity alone exceeds the stock, with
\* or without a cart line, and stock - existing quantity when the product
\* has a cart line and only the line's quantity plus the requested quantity
\* exceeds the stock.
C14_ReportsStockOrAdditionalUnits ==
    [][\A product_id \in ProductIds, quantity \in Quantities :
          (AddToCartOf(product_id, quantity) /\ FailsForStock(product_id, quantity))
          => message'
               = IF quantity > products[product_id].stock
                 THEN Shown("cannot_add", products[product_id].stock)
                 ELSE Shown("cannot_add_more",
                            products[product_id].stock
                            - LineOf(cart, product_id).quantity)]_vars

\* An add to the only line of the cart has been refused because the quantity
\* alone exceeds the stock of 1: no other product has so little stock.
C14_Witness ==
    /\ Len(cart) = 1
    /\ cart[1].pid \in DOMAIN products
    /\ products[cart[1].pid].stock = 1
    /\ \A pid \in DOMAIN products \ {cart[1].pid} : products[pid].stock = MaxStock
    /\ message = Shown("cannot_add", 1)

-----------------------------------------------------------------------------
(* Frame properties of the ledger and of the stock *)

\* The fields of a receipt that are set at its creation
CreationFields(r) ==
    <<r.receipt_id, r.date, r.products, r.total_before_discounts,
      r.discounts_applied, r.final_total>>

\* C15: a stored receipt keeps its identifier, date, products summary,
\* total before discounts, discounts summary and final total for as long as
\* it is stored; its other fields change only in an Update Receipt step, and
\* it leaves the table only in a Delete Receipt step.
C15_ReceiptFrame ==
    [][\A i \in 1..Len(receipts) :
          LET after == {j \in 1..Len(receipts') :
                          receipts'[j].receipt_id = receipts[i].receipt_id}
          IN  /\ after = {} => DeleteReceipt
              /\ \A j \in after :
                    /\ CreationFields(receipts'[j]) = CreationFields(receipts[i])
                    /\ receipts'[j] # receipts[i] => UpdateReceipt]_vars

\* A receipt stored at an earlier tick has just gone through Update Receipt
\* and carries the payment method and the amount of the form.
C15_Witness ==
    /\ message = Shown("update_receipt", 0)
    /\ \E i \in 1..Len(receipts) :
          /\ receipts[i].date < now
          /\ receipts[i].final_total = 30
          /\ receipts[i].payment_method = "PayMe"
          /\ receipts[i].payment_amount = 100
          /\ receipts[i].change = 70

\* C16: add_to_cart, a payment (accepted or refused), and the edit and the
\* deletion of a receipt leave every product in the catalog with the stock
\* it had.
C16_StockFrame ==
    [][\A pid \in DOMAIN products :
          /\ pid \in DOMAIN products'
          /\ products'[pid].stock = products[pid].stock]_vars

\* A payment has been accepted and logged, its receipt edited, and a product
\* put back in the cart: the stock is what it was at the start.
C16_Witness ==
    /\ Len(receipts) >= 1
    /\ \E i \in 1..Len(receipts) : receipts[i].payment_amount # receipts[i].final_total
    /\ cart # <<>>
    /\ Len(message) = 1 /\ message[1].kind = "added"
    /\ \A pid \in DOMAIN products : products[pid].stock = 1

-----------------------------------------------------------------------------
(* Properties of the catalog *)

\* C17: every product of the catalog has a price >= 0, a stock >= 0 and a
\* non-empty name, whatever the Add Product and Update Product forms were
\* given.
C17_CatalogValid ==
    \A pid \in DOMAIN products :
        /\ products[pid].price >= 0
        /\ products[pid].stock >= 0
        /\ products[pid].name # ""

\* The Manage Products forms have stored a product with the lowest price and
\* the lowest stock they accept.
C17_Witness ==
    /\ message = Shown("manage_products", 0)
    /\ \E pid \in DOMAIN products :
          products[pid].price = 0 /\ products[pid].stock = 0

\* C18: a step that deletes a product with a line in the cart leaves the
\* cart as it was; view_cart still lists the line with its captured name,
\* price and quantity, and view_cart and checkout return the totals they
\* returned before the deletion.
C18_DeleteKeepsCartLine ==
    [][\A pid \in DOMAIN products :
          (pid \notin DOMAIN products' /\ InCart(cart, pid)) =>
              LET line == LineOf(cart, pid)
              IN  /\ cart' = cart
                  /\ (view_cart(cart))' = view_cart(cart)
                  /\ \E k \in 1..Len((view_cart(cart))'.cart_items) :
                        (view_cart(cart))'.cart_items[k]
                           = [name |-> line.name, quantity |-> line.quantity,
                              price |-> line.price,
                              subtotal |-> line.price * line.quantity]
                  /\ (checkout(cart, FALSE))' = checkout(cart, FALSE)
                  /\ (checkout(cart, FALSE))'.output[1].amount
                        >= line.price * line.quantity]_vars

\* A product has just been deleted and the cart holds a line of two units
\* of it.
C18_Witness ==
    /\ message = Shown("manage_products", 0)
    /\ \E i \in 1..Len(cart) :
          /\ cart[i].pid \notin DOMAIN products
          /\ cart[i].quantity = 2
          /\ cart[i].price = 30

-----------------------------------------------------------------------------
(* Properties of the receipt identifiers and of the cart's life *)

\* C19: no two rows of the receipts table carry the same receipt_id, also
\* after two payments accepted within the same second.
C19_ReceiptIdsUnique ==
    \A i, j \in 1..Len(receipts) :
        i # j => receipts[i].receipt_id # receipts[j].receipt_id

\* A payment has just been accepted in a second that already has its
\* receipt, and the table holds two receipts.
C19_Witness ==
    /\ Len(receipts) = 2
    /\ \E k \in 1..Len(message) : message[k].kind = "failed_to_log_receipt"
    /\ \E i \in 1..Len(receipts) : receipts[i].receipt_id = receipt_id_at(now)

\* Every line of cart a is a line of cart b at the same place, with at
\* least its quantity.
GrowsTo(a, b) ==
    /\ Len(a) <= Len(b)
    /\ \A i \in 1..Len(a) :
          /\ b[i].pid = a[i].pid
          /\ b[i].quantity >= a[i].quantity

\* C20: in every step the cart keeps all its lines, none with a smaller
\* quantity, or it is emptied; it is emptied only by Clear Cart or by a
\* checkout that has stored its receipt.
C20_CartGrowsOrEmpties ==
    [][\/ GrowsTo(cart, cart')
       \/ /\ cart' = <<>>
          /\ \/ ClearCart
             \/ Len(receipts') = Len(receipts) + 1]_vars

-----------------------------------------------------------------------------
(* The package pass, rule by rule *)

MinOf(S) == CHOOSE x \in S : \A y \in S : x <= y

\* min over the recipe of floor(remaining quantity / required quantity),
\* with 0 for a product the pool does not hold
TimesApplicable(required_products, pool) ==
    MinOf({IF required_products[k].pid \in DOMAIN pool
           THEN pool[required_products[k].pid] \div required_products[k].qty
           ELSE 0 : k \in 1..Len(required_products)})

\* C21: the package pass starts from the cart's quantities and takes the
\* rules in declared order; for each rule, timesApplicable is the minimum
\* over its required products of floor(remaining / required), 0 if one is
\* absent; discount x timesApplicable is added to the savings, required x
\* timesApplicable is taken from the pool that the later rules see, and the
\* pass ends with the savings and the log that apply_package_discounts
\* returns.
C21_PackagePassByRule ==
    [][/\ (out.op = "idle" /\ out'.op = "package") =>
            /\ out'.rest = packages.rules
            /\ out'.st.savings = 0 /\ out'.st.details = <<>>
            /\ DOMAIN out'.st.available_quantities = CartPids(cart)
            /\ \A pid \in CartPids(cart) :
                  out'.st.available_quantities[pid] = QuantityIn(cart, pid)
       /\ (out.op = "package" /\ out'.op = "package") =>
            LET rule == Head(out.rest)
                pool == out.st.available_quantities
                times == TimesApplicable(rule.required_products, pool)
            IN  /\ out'.rest = Tail(out.rest)
                /\ out'.st.savings = out.st.savings + rule.discount * times
                /\ DOMAIN out'.st.available_quantities = DOMAIN pool
                /\ \A pid \in DOMAIN pool :
                      out'.st.available_quantities[pid]
                         = pool[pid] - RequiredOf(rule.required_products, pid) * times
                /\ out'.st.details
                      = IF times > 0
                        THEN Append(out.st.details,
                                    Line("package", rule.name, times,
                                         rule.discount * times))
                        ELSE out.st.details
       /\ (out'.op = "package" /\ out'.rest = <<>>) =>
            /\ out'.st.savings = apply_package_discounts(cart).savings
            /\ out'.st.details = apply_package_discounts(cart).details]_vars

\* The rule two_straps came first and took both straps of the cart: the
\* later rule one_strap found none left and was not applied.
C21_Witness ==
    /\ out.op = "package"
    /\ out.rest = <<>>
    /\ Len(packages.rules) = 2
    /\ packages.rules[1].name = "two_straps"
    /\ packages.rules[2].name = "one_strap"
    /\ QuantityIn(cart, 1) = 2
    /\ out.st.details = <<Line("package", "two_straps", 1, packages.rules[1].discount)>>
    /\ out.st.available_quantities[1] = 0

-----------------------------------------------------------------------------
(* What a cart line captures *)

\* The add of quantity units of the product succeeds.
Succeeds(product_id, quantity) ==
    /\ product_id \in DOMAIN products
    /\ quantity <= products[product_id].stock
    /\ InCart(cart, product_id) =>
          LineOf(cart, product_id).quantity + quantity <= products[product_id].stock

\* C22: after every successful add_to_cart, whether it creates the line or
\* increments it, the line holds the name and the price that the product
\* has in the catalog at that call.
C22_LineHoldsCatalogAtCall ==
    [][\A product_id \in ProductIds, quantity \in Quantities :
          (AddToCartOf(product_id, quantity) /\ Succeeds(product_id, quantity))
          => /\ LineOf(cart', product_id).name = products[product_id].name
             /\ LineOf(cart', product_id).price = products[product_id].price]_vars

\* C22, amended: a successful add_to_cart that creates the line gives it the
\* name and the price that the product has in the catalog at that call; one
\* that increments the line adds to its quantity and leaves the name and the
\* price it got when it was created.
C22_LineHoldsCatalogAtCreation ==
    [][\A product_id \in ProductIds, quantity \in Quantities :
          (AddToCartOf(product_id, quantity) /\ Succeeds(product_id, quantity))
          => IF InCart(cart, product_id)
             THEN /\ Len(cart') = Len(cart)
                  /\ LineOf(cart', product_id)
                        = [LineOf(cart, product_id) EXCEPT !.quantity = @ + quantity]
             ELSE cart' = Append(cart, [pid |-> product_id,
                                        name |-> products[product_id].name,
                                        price |-> products[product_id].price,
                                        quantity |-> quantity])]_vars

\* A line created at the price of 30 has just been incremented after the
\* product was renamed and repriced.
C22_Witness ==
    /\ message = Shown("added", 1)
    /\ \E i \in 1..Len(cart) :
          /\ cart[i].quantity = 2
          /\ cart[i].pid \in DOMAIN products
          /\ cart[i].price = 30 /\ products[cart[i].pid].price = 0
          /\ cart[i].name # products[cart[i].pid].name
          /\ products[cart[i].pid].stock = 2

-----------------------------------------------------------------------------
(* Zero totals *)

\* C23: every line of the cart has a subtotal price x quantity > 0, so
\* view_cart returns the total 0 for the empty cart only.
C23_NoZeroTotalCart ==
    /\ \A i \in 1..Len(cart) : cart[i].price * cart[i].quantity > 0
    /\ view_cart(cart).total = 0 => cart = <<>>

\* C23, amended: every line of the cart has a quantity > 0 and a price >= 0,
\* so a subtotal >= 0, and view_cart returns the total 0 exactly for the
\* carts whose lines all have the price 0, the empty cart among them.
C23_ZeroTotalOnlyAtPriceZero ==
    /\ \A i \in 1..Len(cart) :
          /\ cart[i].quantity > 0
          /\ cart[i].price >= 0
          /\ view_cart(cart).cart_items[i].subtotal >= 0
    /\ view_cart(cart).total = 0 <=> \A i \in 1..Len(cart) : cart[i].price = 0

\* A cart of two lines that view_cart totals to 0.
C23_Witness ==
    /\ Len(cart) = 2
    /\ view_cart(cart).total = 0
    /\ Len(view_cart(cart).cart_items) = 2

-----------------------------------------------------------------------------
(* The discount engine reads the cart, it does not write it *)

\* C24: no step of apply_package_discounts, apply_fixed_discount or
\* checkout changes the cart or the catalog, and pricing the cart again
\* after a checkout or a package pass returns the same final total, the
\* same log and the same savings.
C24_EngineLeavesCart ==
    [][/\ cart' = cart
       /\ products' = products
       /\ out'.op = "checkout" =>
             checkout(cart', out'.apply_coupon) = out'.res
       /\ (out'.op = "package" /\ out'.rest = <<>>) =>
             /\ apply_package_discounts(cart').savings = out'.st.savings
             /\ apply_package_discounts(cart').details = out'.st.details]_vars

\* A package pass has ended with a pool that holds fewer straps than the
\* cart, which still has its two.
C24_Witness ==
    /\ out.op = "package"
    /\ out.rest = <<>>
    /\ out.st.savings > 0
    /\ QuantityIn(cart, 1) = 2
    /\ out.st.available_quantities[1] < 2

-----------------------------------------------------------------------------
(* Payments *)

\* C25: every stored receipt has a final total > 0; a receipt is written
\* only with a final total > 0 that checkout returns for the cart, and
\* while checkout returns a final total <= 0 with and without the coupon,
\* no receipt is written and only Add to Cart and Clear Cart change the
\* cart.
C25_NoReceiptWithoutTotal ==
    /\ [](\A i \in 1..Len(receipts) : receipts[i].final_total > 0)
    /\ [][Len(receipts') > Len(receipts) =>
            LET receipt == receipts'[Len(receipts')]
            IN  /\ receipt.final_total > 0
                /\ \E apply_coupon \in BOOLEAN :
                      receipt.final_total = checkout(cart, apply_coupon).final_total]_vars
    /\ [][(\A apply_coupon \in BOOLEAN : checkout(cart, apply_coupon).final_total <= 0)
          => /\ receipts' = receipts \/ UpdateReceipt \/ DeleteReceipt
             /\ cart' # cart => AddToCart \/ ClearCart]_vars

\* The cart holds one strap at 5, which the coupon brings to 0, and the
\* ledger holds the receipt of an earlier payment of 5 without the coupon.
C25_Witness ==
    /\ cart # <<>>
    /\ checkout(cart, TRUE).final_total = 0
    /\ Len(receipts) >= 1
    /\ receipts[1].final_total = 5
    /\ receipts[1].discounts_applied = <<Line("None", "", 0, 0)>>

\* Every line of the cart c is of a product of the catalog and holds at
\* most its stock.
WithinStock(c, catalog) ==
    \A i \in 1..Len(c) :
        /\ c[i].pid \in DOMAIN catalog
        /\ c[i].quantity <= catalog[c[i].pid].stock

\* C26 as stated: a receipt is recorded only for a cart in which every
\* line holds at most the current stock of its product at the time of
\* payment, whatever adds, catalog edits and deletions came before.
C26_ReceiptWithinStock ==
    [][Len(receipts') > Len(receipts) => WithinStock(cart, products)]_vars

\* C26, amended: a cart within the current stock stays within it over every
\* step that leaves the catalog as it is (add_to_cart tests the stock), so
\* only a catalog edit or deletion puts a line above the stock; the payment
\* tests no stock and records the cart as it stands, leaving the catalog
\* unchanged.
C26_ReceiptRecordsCartAsItStands ==
    /\ [][(WithinStock(cart, products) /\ products' = products)
          => WithinStock(cart', products')]_vars
    /\ [][Len(receipts') > Len(receipts) =>
            /\ receipts'[Len(receipts')].products = products_summary(cart)
            /\ products' = products]_vars

\* A payment has just gone through and its receipt holds two straps, while
\* the catalog holds fewer than two straps or no such product any more.
C26_Witness ==
    /\ Len(receipts) = 1
    /\ cart = <<>>
    /\ Len(message) = 2
    /\ message[2].kind = "payment_successful"
    /\ \E i \in 1..Len(receipts[1].products) : receipts[1].products[i][2] = 2
    /\ \/ 1 \notin DOMAIN products
       \/ products[1].stock < 2

====
